---- MODULE Spec2Model ----
(***************************************************************************)
(* A model of samurai's Version type (src/src/version.rs): parsing a       *)
(* dotted version string, the ordering of versions, the two compatibility  *)
(* predicates and the evaluation of a range pattern.                       *)
(*                                                                         *)
(* A string is a sequence of characters, a character a one-element TLA+    *)
(* string; "SUP2" stands for the single character U+00B2 (superscript      *)
(* two), which char::is_numeric accepts and which is no ASCII digit.       *)
(* A u32 is a pair <<hi, lo>> of 16-bit limbs, value hi * 65536 + lo, so   *)
(* that the whole 32-bit range, u32::MAX included, is represented.         *)
(***************************************************************************)
EXTENDS Integers, Sequences, FiniteSets, TLC

VARIABLES
    overflow_checks, \* the build: TRUE = arithmetic overflow panics (debug), FALSE = it wraps (release)
    v1,              \* the receiver of the call (self)
    v2,              \* the argument version (other)
    v3,              \* a third version, for the laws of the ordering
    token,           \* the text the input string starts with (before its version text)
    parts,           \* the segment texts the input's version text is joined from
    input,           \* the string handed to from / check
    pc,              \* "ready", then the name of the operation that was called
    ret              \* what the call returned

vars == <<overflow_checks, v1, v2, v3, token, parts, input, pc, ret>>

-----------------------------------------------------------------------------
(* Bounds of the explored inputs.                                          *)

\* from is called on strings of 1..MaxParts segments
MaxParts == 4
\* check is called on patterns whose version text has 0..MaxPatternParts segments
MaxPatternParts == 4
\* a field of a version handed to the predicates is within MaxSmall of 0 or of u32::MAX
MaxSmall == 1
\* a field of a version handed to the ordering is 0..MaxOrd or u32::MAX
MaxOrd == 1

-----------------------------------------------------------------------------
(* u32                                                                     *)

LimbBase == 65536

U32(hi, lo) == <<hi, lo>>

Zero == U32(0, 0)

One == U32(0, 1)

U32_MAX == U32(LimbBase - 1, LimbBase - 1)

u32_lt(x, y) == x[1] < y[1] \/ (x[1] = y[1] /\ x[2] < y[2])

u32_gt(x, y) == u32_lt(y, x)

\* x * 10 + d over u32, as checked_mul followed by checked_add
u32_mul10_add(x, d) ==
    LET lo == x[2] * 10 + d
        hi == x[1] * 10 + (lo \div LimbBase)
    IN  [overflow |-> hi >= LimbBase, val |-> U32(hi % LimbBase, lo % LimbBase)]

\* x + 1 over u32: the wrapped sum, and whether it overflowed
u32_add_one(x) ==
    IF x = U32_MAX THEN [overflow |-> TRUE, val |-> Zero]
    ELSE IF x[2] = LimbBase - 1 THEN [overflow |-> FALSE, val |-> U32(x[1] + 1, 0)]
    ELSE [overflow |-> FALSE, val |-> U32(x[1], x[2] + 1)]

-----------------------------------------------------------------------------
(* Characters and strings                                                  *)

Digits == {"0", "1", "2", "3", "4", "5", "6", "7", "8", "9"}

\* char::is_numeric: the Unicode categories Nd, Nl and No
is_numeric(ch) == ch \in Digits \union {"SUP2"}

digit_value(ch) ==
    CASE ch = "0" -> 0 [] ch = "1" -> 1 [] ch = "2" -> 2 [] ch = "3" -> 3
      [] ch = "4" -> 4 [] ch = "5" -> 5 [] ch = "6" -> 6 [] ch = "7" -> 7
      [] ch = "8" -> 8 [] ch = "9" -> 9

\* str::find: the index of the first character satisfying the predicate, 0 for None
find_numeric(s) ==
    LET hits == {i \in 1..Len(s) : is_numeric(s[i])}
    IN  IF hits = {} THEN 0 ELSE CHOOSE i \in hits : \A j \in hits : i <= j

find_dot(s) ==
    LET hits == {i \in 1..Len(s) : s[i] = "."}
    IN  IF hits = {} THEN 0 ELSE CHOOSE i \in hits : \A j \in hits : i <= j

RECURSIVE split(_)
\* s.split('.'): the substrings between the dots, at least one
split(s) ==
    LET i == find_dot(s)
    IN  IF i = 0 THEN <<s>>
        ELSE <<SubSeq(s, 1, i - 1)>> \o split(SubSeq(s, i + 1, Len(s)))

RECURSIVE parse_digits(_, _)
\* the digit loop of u32::from_str: acc over the remaining characters
parse_digits(acc, digits) ==
    IF digits = <<>> THEN [ok |-> TRUE, val |-> acc]
    ELSE IF Head(digits) \notin Digits THEN [ok |-> FALSE, val |-> Zero]
    ELSE LET next == u32_mul10_add(acc, digit_value(Head(digits)))
         IN  IF next.overflow THEN [ok |-> FALSE, val |-> Zero]
             ELSE parse_digits(next.val, Tail(digits))

\* part.parse::<u32>(): empty, a lone sign, a non-digit or an overflow is an
\* error; one leading '+' is skipped, a leading '-' is not a sign of a u32
parse(part) ==
    IF part = <<>> THEN [ok |-> FALSE, val |-> Zero]
    ELSE IF Len(part) = 1 /\ Head(part) \in {"+", "-"} THEN [ok |-> FALSE, val |-> Zero]
    ELSE IF Head(part) = "+" THEN parse_digits(Zero, Tail(part))
    ELSE parse_digits(Zero, part)

-----------------------------------------------------------------------------
(* Results                                                                 *)

Ok(x) == [tag |-> "Ok", val |-> x]

\* an Err(String): the message's fixed text and the text formatted into it
Err(message, text) == [tag |-> "Err", msg |-> message, arg |-> text]

\* a plain (non-Result) return value
Return(x) == [tag |-> "Return", val |-> x]

\* the call did not return: the thread panicked
Panicked == [tag |-> "Panic"]

NoResult == [tag |-> "None"]

-----------------------------------------------------------------------------
(* Version                                                                 *)

new(major, minor, patch) == [major |-> major, minor |-> minor, patch |-> patch]

from_take3(s) ==
    LET all == split(s)
        texts == SubSeq(all, 1, IF Len(all) > 3 THEN 3 ELSE Len(all))
        parsed == [i \in 1..Len(texts) |-> parse(texts[i])]
        bad == {i \in 1..Len(texts) : ~parsed[i].ok}
    IN  IF bad # {}
        THEN Err("cannot parse as u32", texts[CHOOSE i \in bad : \A j \in bad : i <= j])
        ELSE Ok(new(parsed[1].val,
                    IF Len(texts) >= 2 THEN parsed[2].val ELSE Zero,
                    IF Len(texts) >= 3 THEN parsed[3].val ELSE Zero))

from_default_one(s) ==
    LET texts == split(s)
        parsed == [i \in 1..Len(texts) |-> parse(texts[i])]
        bad == {i \in 1..Len(texts) : ~parsed[i].ok}
    IN  IF bad # {}
        THEN Err("cannot parse as u32", texts[CHOOSE i \in bad : \A j \in bad : i <= j])
        ELSE IF Len(texts) > 3 THEN Err("too many parts", <<>>)
        ELSE Ok(new(parsed[1].val,
                    IF Len(texts) >= 2 THEN parsed[2].val ELSE Zero,
                    IF Len(texts) >= 3 THEN parsed[3].val ELSE One))

\* Version::from: every segment is parsed, in order, and the first failure is
\* returned; only then is the number of segments looked at
from(s) ==
    LET texts == split(s)
        parsed == [i \in 1..Len(texts) |-> parse(texts[i])]
        bad == {i \in 1..Len(texts) : ~parsed[i].ok}
    IN  IF bad # {}
        THEN Err("cannot parse as u32", texts[CHOOSE i \in bad : \A j \in bad : i <= j])
        ELSE IF Len(texts) > 3 THEN Err("too many parts", <<>>)
        ELSE IF Len(texts) = 0 THEN Panicked
        ELSE Ok(new(parsed[1].val,
                    IF Len(texts) >= 2 THEN parsed[2].val ELSE Zero,
                    IF Len(texts) >= 3 THEN parsed[3].val ELSE Zero))

-----------------------------------------------------------------------------
(* Ordering and equality                                                   *)

eq_no_patch(self, other) ==
    self.major = other.major /\ self.minor = other.minor

\* PartialEq::eq
eq(self, other) ==
    self.major = other.major /\ self.minor = other.minor /\ self.patch = other.patch

cmp_no_patch(self, other) ==
    IF u32_gt(self.major, other.major) THEN "Greater"
    ELSE IF self.major = other.major /\ u32_gt(self.minor, other.minor) THEN "Greater"
    ELSE IF self.major = other.major /\ self.minor = other.minor THEN "Equal"
    ELSE "Less"

\* Ord::cmp
cmp(self, other) ==
    IF u32_gt(self.major, other.major) THEN "Greater"
    ELSE IF self.major = other.major
    THEN IF u32_gt(self.minor, other.minor) THEN "Greater"
         ELSE IF self.minor = other.minor
         THEN IF u32_gt(self.patch, other.patch) THEN "Greater"
              ELSE IF self.patch = other.patch THEN "Equal"
              ELSE "Less"
         ELSE "Less"
    ELSE "Less"

\* PartialOrd::partial_cmp: Some(self.cmp(other)), the Some left out
partial_cmp(self, other) == cmp(self, other)

\* the operators <, <=, >, >= are PartialOrd's provided methods over partial_cmp
lt(self, other) == partial_cmp(self, other) = "Less"

le(self, other) == partial_cmp(self, other) \in {"Less", "Equal"}

gt(self, other) == partial_cmp(self, other) = "Greater"

ge(self, other) == partial_cmp(self, other) \in {"Greater", "Equal"}

-----------------------------------------------------------------------------
(* Compatibility predicates                                                *)

is_featureless_either_way(self, other) ==
    LET sum == u32_add_one(other.minor)
    IN  IF sum.overflow /\ overflow_checks THEN Panicked
        ELSE Return(lt(self, new(other.major, sum.val, Zero)))

\* Version::is_featureless: && evaluates other.minor + 1 only when
\* self >= other; the sum panics under overflow checks and wraps otherwise
is_featureless(self, other) ==
    IF ~ge(self, other) THEN Return(FALSE)
    ELSE LET sum == u32_add_one(other.minor)
         IN  IF sum.overflow /\ overflow_checks THEN Panicked
             ELSE Return(lt(self, new(other.major, sum.val, Zero)))

\* Version::is_compatible
is_compatible(self, other) ==
    IF self.major = Zero THEN is_featureless(self, other)
    ELSE IF ~ge(self, other) THEN Return(FALSE)
    ELSE LET sum == u32_add_one(other.major)
         IN  IF sum.overflow /\ overflow_checks THEN Panicked
             ELSE Return(lt(self, new(sum.val, Zero, Zero)))

-----------------------------------------------------------------------------
(* Pattern evaluation                                                      *)

\* a bool-returning call made inside check: its value wrapped in Ok, its panic passed on
ok_of(r) == IF r.tag = "Panic" THEN Panicked ELSE Ok(r.val)

check_operator_first(self, pattern) ==
    LET version_start == find_numeric(pattern)
        operator == SubSeq(pattern, 1, version_start - 1)
        other == from(SubSeq(pattern, version_start, Len(pattern)))
    IN  IF version_start = 0 THEN Err("cannot extract the major part", <<>>)
        ELSE IF operator \notin {<<"=">>, <<"<">>, <<">">>, <<"<", "=">>, <<">", "=">>,
                                 <<"^">>, <<"~">>}
        THEN Err("operator not found", operator)
        ELSE IF other.tag # "Ok" THEN other
        ELSE CASE operator = <<"=">> -> Ok(eq(self, other.val))
               [] operator = <<"<">> -> Ok(lt(self, other.val))
               [] operator = <<">">> -> Ok(gt(self, other.val))
               [] operator = <<"<", "=">> -> Ok(le(self, other.val))
               [] operator = <<">", "=">> -> Ok(ge(self, other.val))
               [] operator = <<"^">> -> ok_of(is_compatible(self, other.val))
               [] operator = <<"~">> -> ok_of(is_featureless(self, other.val))

\* Version::check: the operator is the text before the first numeric
\* character; the rest is parsed, and its error returned, before the operator
\* is matched
check(self, pattern) ==
    LET version_start == find_numeric(pattern)
        operator == SubSeq(pattern, 1, version_start - 1)
        other == from(SubSeq(pattern, version_start, Len(pattern)))
    IN  IF version_start = 0 THEN Err("cannot extract the major part", <<>>)
        ELSE IF other.tag # "Ok" THEN other
        ELSE CASE operator = <<"=">> -> Ok(eq(self, other.val))
               [] operator = <<"<">> -> Ok(lt(self, other.val))
               [] operator = <<">">> -> Ok(gt(self, other.val))
               [] operator = <<"<", "=">> -> Ok(le(self, other.val))
               [] operator = <<">", "=">> -> Ok(ge(self, other.val))
               [] operator = <<"^">> -> ok_of(is_compatible(self, other.val))
               [] operator = <<"~">> -> ok_of(is_featureless(self, other.val))
               [] OTHER -> Err("operator not found", operator)

-----------------------------------------------------------------------------
(* The inputs the calls are made on                                        *)

\* segment texts handed to from: digit strings within u32 (with leading
\* zeros, with a high limb, the maximum), one past the maximum, the empty
\* segment, signed, lettered and spaced segments
SegTexts ==
    { <<"1">>, <<"1", "0">>, <<"0", "0", "7">>, <<"6", "5", "5", "3", "6">>,
      <<"4", "2", "9", "4", "9", "6", "7", "2", "9", "5">>,
      <<"4", "2", "9", "4", "9", "6", "7", "2", "9", "6">>,
      <<>>, <<"+", "1">>, <<"-", "1">>, <<"a">>, <<" ", "1">> }

\* segment texts of the version text of a pattern
PatternSegTexts ==
    { <<"1">>, <<"4", "2", "9", "4", "9", "6", "7", "2", "9", "5">>,
      <<"+", "1">>, <<"a">> }

\* the texts a pattern starts with: the seven operators, nothing, and others
Tokens ==
    { <<"=">>, <<"<">>, <<">">>, <<"<", "=">>, <<">", "=">>, <<"^">>, <<"~">>,
      <<>>, <<"s", "e", "e", "y", "a">>, <<"SUP2">>, <<"=", "SUP2">> }

SeqsUpTo(S, lo, hi) == UNION {[1..n -> S] : n \in lo..hi}

RECURSIVE Join(_)
\* the segments with a '.' between each two
Join(ps) ==
    IF ps = <<>> THEN <<>>
    ELSE IF Len(ps) = 1 THEN ps[1]
    ELSE ps[1] \o <<".">> \o Join(Tail(ps))

VersionsOver(F) == {new(a, b, c) : a \in F, b \in F, c \in F}

NearFields ==
    {U32(0, n) : n \in 0..MaxSmall}
        \union {U32(LimbBase - 1, LimbBase - 1 - n) : n \in 0..MaxSmall}

OrdFields == {U32(0, n) : n \in 0..MaxOrd} \union {U32_MAX}

ReceiverFields == {Zero, One, U32_MAX}

NoVersion == new(Zero, Zero, Zero)

-----------------------------------------------------------------------------
(* The calls                                                               *)

call_from ==
    /\ pc = "ready"
    /\ pc' = "from"
    /\ ret' = from(input)
    /\ UNCHANGED <<overflow_checks, v1, v2, v3, token, parts, input>>

call_cmp ==
    /\ pc = "ready"
    /\ pc' = "cmp"
    /\ ret' = Return(cmp(v1, v2))
    /\ UNCHANGED <<overflow_checks, v1, v2, v3, token, parts, input>>

call_eq ==
    /\ pc = "ready"
    /\ pc' = "eq"
    /\ ret' = Return(eq(v1, v2))
    /\ UNCHANGED <<overflow_checks, v1, v2, v3, token, parts, input>>

call_lt ==
    /\ pc = "ready"
    /\ pc' = "lt"
    /\ ret' = Return(lt(v1, v2))
    /\ UNCHANGED <<overflow_checks, v1, v2, v3, token, parts, input>>

call_gt ==
    /\ pc = "ready"
    /\ pc' = "gt"
    /\ ret' = Return(gt(v1, v2))
    /\ UNCHANGED <<overflow_checks, v1, v2, v3, token, parts, input>>

call_is_featureless ==
    /\ pc = "ready"
    /\ pc' = "is_featureless"
    /\ ret' = is_featureless(v1, v2)
    /\ UNCHANGED <<overflow_checks, v1, v2, v3, token, parts, input>>

call_is_compatible ==
    /\ pc = "ready"
    /\ pc' = "is_compatible"
    /\ ret' = is_compatible(v1, v2)
    /\ UNCHANGED <<overflow_checks, v1, v2, v3, token, parts, input>>

call_check ==
    /\ pc = "ready"
    /\ pc' = "check"
    /\ ret' = check(v1, input)
    /\ UNCHANGED <<overflow_checks, v1, v2, v3, token, parts, input>>

-----------------------------------------------------------------------------
(* Specifications: one per group of operations, each starting from the     *)
(* inputs of its calls                                                     *)

InitFrom ==
    /\ overflow_checks \in BOOLEAN
    /\ v1 = NoVersion /\ v2 = NoVersion /\ v3 = NoVersion
    /\ token = <<>>
    /\ parts \in SeqsUpTo(SegTexts, 1, MaxParts)
    /\ input = Join(parts)
    /\ pc = "ready"
    /\ ret = NoResult

NextFrom == call_from

SpecFrom == InitFrom /\ [][NextFrom]_vars

InitOrd ==
    /\ overflow_checks = FALSE
    /\ v1 \in VersionsOver(OrdFields)
    /\ v2 \in VersionsOver(OrdFields)
    /\ v3 \in VersionsOver(OrdFields)
    /\ token = <<>> /\ parts = <<>> /\ input = <<>>
    /\ pc = "ready"
    /\ ret = NoResult

NextOrd == call_cmp \/ call_eq \/ call_lt \/ call_gt

SpecOrd == InitOrd /\ [][NextOrd]_vars

InitCompat ==
    /\ overflow_checks \in BOOLEAN
    /\ v1 \in VersionsOver(NearFields)
    /\ v2 \in VersionsOver(NearFields)
    /\ v3 = NoVersion
    /\ token = <<>> /\ parts = <<>> /\ input = <<>>
    /\ pc = "ready"
    /\ ret = NoResult

NextCompat == call_is_featureless \/ call_is_compatible

SpecCompat == InitCompat /\ [][NextCompat]_vars

InitCheck ==
    /\ overflow_checks \in BOOLEAN
    /\ v1 \in VersionsOver(ReceiverFields)
    /\ v2 = NoVersion /\ v3 = NoVersion
    /\ token \in Tokens
    /\ parts \in SeqsUpTo(PatternSegTexts, 0, MaxPatternParts)
    /\ input = token \o Join(parts)
    /\ pc = "ready"
    /\ ret = NoResult

NextCheck == call_check

SpecCheck == InitCheck /\ [][NextCheck]_vars

-----------------------------------------------------------------------------
(* What the properties are stated with: the decimal reading of a segment,  *)
(* the lexicographic order of triples, and the split of a pattern at its   *)
(* first decimal digit, each defined apart from the operations above       *)

MaxText == <<"4", "2", "9", "4", "9", "6", "7", "2", "9", "5">>

IsDigitString(text) == text # <<>> /\ \A i \in 1..Len(text) : text[i] \in Digits

\* a digit string whose value fits in u32: u32::MAX itself, or at most nine
\* digits (the ten-digit strings explored are u32::MAX and u32::MAX + 1)
FitsU32(text) == IsDigitString(text) /\ (text = MaxText \/ Len(text) <= 9)

RECURSIVE DecimalNat(_)
\* the number a string of at most nine digits denotes
DecimalNat(text) ==
    IF text = <<>> THEN 0
    ELSE 10 * DecimalNat(SubSeq(text, 1, Len(text) - 1)) + digit_value(text[Len(text)])

DecimalU32(text) ==
    IF text = MaxText THEN U32_MAX
    ELSE U32(DecimalNat(text) \div LimbBase, DecimalNat(text) % LimbBase)

\* the limbs of the triple (major, minor, patch), most significant first
Key(v) == <<v.major[1], v.major[2], v.minor[1], v.minor[2], v.patch[1], v.patch[2]>>

LexCompare(k1, k2) ==
    LET diff == {i \in 1..Len(k1) : k1[i] # k2[i]}
    IN  IF diff = {} THEN "Equal"
        ELSE LET d == CHOOSE i \in diff : \A j \in diff : i <= j
             IN  IF k1[d] < k2[d] THEN "Less" ELSE "Greater"

Reverse(ordering) ==
    CASE ordering = "Less" -> "Greater"
      [] ordering = "Greater" -> "Less"
      [] ordering = "Equal" -> "Equal"

U32Geq(x, y) == LexCompare(x, y) \in {"Greater", "Equal"}

HasDigit(s) == \E i \in 1..Len(s) : s[i] \in Digits

FirstDigit(s) == CHOOSE i \in 1..Len(s) : s[i] \in Digits /\ \A j \in 1..(i - 1) : s[j] \notin Digits

\* the characters before the first decimal digit
LeadingToken(s) == SubSeq(s, 1, FirstDigit(s) - 1)

FromFirstDigit(s) == SubSeq(s, FirstDigit(s), Len(s))

SevenOperators ==
    {<<"=">>, <<"<">>, <<">">>, <<"<", "=">>, <<">", "=">>, <<"^">>, <<"~">>}

-----------------------------------------------------------------------------
(* Parsing                                                                 *)

\* C1: on an input of one, two or three segments, each a digit string whose
\* value fits in u32, from returns Ok of the version whose major, minor and
\* patch are the values of the first, second and third segment, a missing
\* trailing segment counting as 0.
C1_FromFillsMissingWithZero ==
    (pc = "from" /\ Len(parts) <= 3 /\ \A i \in 1..Len(parts) : FitsU32(parts[i]))
        => ret = Ok(new(DecimalU32(parts[1]),
                        IF Len(parts) >= 2 THEN DecimalU32(parts[2]) ELSE Zero,
                        IF Len(parts) >= 3 THEN DecimalU32(parts[3]) ELSE Zero))

\* from has returned (65536, 4294967295, 0) for "65536.4294967295"
C1_Witness ==
    /\ pc = "from"
    /\ parts = <<<<"6", "5", "5", "3", "6">>, MaxText>>
    /\ ret = Ok(new(U32(1, 0), U32_MAX, Zero))

\* C2 as stated: on an input of more than three segments, whatever they
\* hold, from fails with the too-many-parts error.
C2_TooManyPartsWhateverTheContent ==
    (pc = "from" /\ Len(parts) > 3) => ret = Err("too many parts", <<>>)

\* C2, amended: on an input of more than three segments from never returns
\* a version; it fails with the too-many-parts error when every segment
\* parses as a u32, and otherwise with the invalid-segment error carrying
\* the first segment that does not parse.
C2_TooManyPartsAfterParsing ==
    (pc = "from" /\ Len(parts) > 3)
        => LET bad == {i \in 1..Len(parts) : ~parse(parts[i]).ok}
           IN  IF bad = {} THEN ret = Err("too many parts", <<>>)
               ELSE \E i \in bad :
                       /\ \A j \in bad : i <= j
                       /\ ret = Err("cannot parse as u32", parts[i])

\* from has rejected "1.1.1.a" for its fourth segment
C2_Witness ==
    /\ pc = "from"
    /\ parts = <<<<"1">>, <<"1">>, <<"1">>, <<"a">>>>
    /\ ret = Err("cannot parse as u32", <<"a">>)

\* C3: on an input of at most three segments, one of which is not a
\* non-empty string of the digits 0-9, from fails with the invalid-segment
\* error, carrying the text of a segment that is no digit string within u32.
C3_NonDigitSegmentRejected ==
    (pc = "from" /\ Len(parts) <= 3 /\ \E i \in 1..Len(parts) : ~IsDigitString(parts[i]))
        => /\ ret.tag = "Err"
           /\ ret.msg = "cannot parse as u32"
           /\ \E i \in 1..Len(parts) : ~FitsU32(parts[i]) /\ ret.arg = parts[i]

-----------------------------------------------------------------------------
(* Ordering                                                                *)

\* C4: cmp(a, b) is the lexicographic comparison of (a.major, a.minor,
\* a.patch) with (b.major, b.minor, b.patch).
C4_CmpIsLexicographic ==
    pc = "cmp" => ret = Return(LexCompare(Key(v1), Key(v2)))

\* cmp has been decided by the patch alone, with fields at u32::MAX
C4_Witness ==
    /\ pc = "cmp"
    /\ v1.major = U32_MAX /\ v2.major = U32_MAX
    /\ v1.minor = v2.minor
    /\ v1.patch # v2.patch
    /\ ret = Return("Less")

\* C5: exactly one of a < b, a == b, a > b holds; a == b exactly when
\* cmp(a, b) is Equal; cmp(a, b) is the reverse of cmp(b, a); and a < b
\* with b < c gives a < c.
C5_TotalOrder ==
    pc # "ready"
        => /\ Cardinality({r \in {"lt", "eq", "gt"} :
                              \/ r = "lt" /\ lt(v1, v2)
                              \/ r = "eq" /\ eq(v1, v2)
                              \/ r = "gt" /\ gt(v1, v2)}) = 1
           /\ eq(v1, v2) <=> (cmp(v1, v2) = "Equal")
           /\ cmp(v1, v2) = Reverse(cmp(v2, v1))
           /\ (lt(v1, v2) /\ lt(v2, v3)) => lt(v1, v3)
           /\ pc = "eq" => ret = Return(cmp(v1, v2) = "Equal")
           /\ pc = "lt" => ret = Return(cmp(v2, v1) = "Greater")
           /\ pc = "gt" => ret = Return(cmp(v2, v1) = "Less")

\* a < b has been returned for versions that differ in the patch only, with b < c
C5_Witness ==
    /\ pc = "lt"
    /\ ret = Return(TRUE)
    /\ v1.major = v2.major /\ v1.minor = v2.minor
    /\ lt(v2, v3)

-----------------------------------------------------------------------------
(* Compatibility predicates                                                *)

\* C6: is_featureless(self, other) is true exactly when self.major =
\* other.major, self.minor = other.minor and self.patch >= other.patch,
\* over the whole u32 range of each field.
C6_FeaturelessIsSameMinorNotOlder ==
    pc = "is_featureless"
        => ret = Return(/\ v1.major = v2.major
                        /\ v1.minor = v2.minor
                        /\ U32Geq(v1.patch, v2.patch))

\* C7: is_compatible(self, other) is true exactly when self >= other,
\* self.major = other.major and, if self.major = 0, self.minor =
\* other.minor, over the whole u32 range of each field.
C7_CompatibleIsSameMajorNotOlder ==
    pc = "is_compatible"
        => ret = Return(/\ U32Geq(Key(v1), Key(v2))
                        /\ v1.major = v2.major
                        /\ (v1.major = Zero => v1.minor = v2.minor))

-----------------------------------------------------------------------------
(* Pattern evaluation                                                      *)

\* C8: for each of the seven operators and every version string s that from
\* accepts, check(self, operator + s) returns Ok of the operator's relation
\* between self and from(s).
C8_CheckAppliesTheOperator ==
    (pc = "check" /\ token \in SevenOperators /\ from(Join(parts)).tag = "Ok")
        => LET other == from(Join(parts)).val
           IN  /\ ret.tag = "Ok"
               /\ token = <<"=">> => ret.val = eq(v1, other)
               /\ token = <<"<">> => ret.val = lt(v1, other)
               /\ token = <<">">> => ret.val = gt(v1, other)
               /\ token = <<"<", "=">> => ret.val = le(v1, other)
               /\ token = <<">", "=">> => ret.val = ge(v1, other)
               /\ token = <<"^">> => is_compatible(v1, other) = Return(ret.val)
               /\ token = <<"~">> => is_featureless(v1, other) = Return(ret.val)

C10_NoVersionFoundIffNoDigit ==
    pc = "check"
        => (ret = Err("cannot extract the major part", <<>>) <=> ~HasDigit(input))

-----------------------------------------------------------------------------
(* Failures as values, and the direction of the predicates                 *)

\* C11: from on every string and check on every receiver and pattern return
\* a value, Ok or Err, and never panic.
C11_CallsReturnAValue ==
    pc \in {"from", "check"} => ret.tag \in {"Ok", "Err"}

\* C12: with self < other, is_compatible and is_featureless are both false;
\* so when either holds of (self, other) with self # other, it does not hold
\* of (other, self).
C12_OnlyForwardCompatibility ==
    /\ (pc = "is_featureless" /\ LexCompare(Key(v1), Key(v2)) = "Less")
           => ret = Return(FALSE)
    /\ (pc = "is_compatible" /\ LexCompare(Key(v1), Key(v2)) = "Less")
           => ret = Return(FALSE)
    /\ (pc = "is_featureless" /\ ret = Return(TRUE) /\ v1 # v2)
           => is_featureless(v2, v1) = Return(FALSE)
    /\ (pc = "is_compatible" /\ ret = Return(TRUE) /\ v1 # v2)
           => is_compatible(v2, v1) = Return(FALSE)

\* is_featureless has held of two different versions, the newer one first
C12_Witness ==
    /\ pc = "is_featureless"
    /\ ret = Return(TRUE)
    /\ v1 # v2
    /\ LexCompare(Key(v2), Key(v1)) = "Less"

\* C13: over the whole u32 range of each field, is_featureless(self, other)
\* implies is_compatible(self, other).
C13_FeaturelessImpliesCompatible ==
    (pc = "is_featureless" /\ ret = Return(TRUE))
        => is_compatible(v1, v2) = Return(TRUE)

====
